---- MODULE Spec2Model ----
(***************************************************************************)
(* Model of the task refresh workflow and the email tool of                *)
(* src/mastra/workflows/taskRefreshWorkflow.ts: the Gmail fetch with its   *)
(* body decoder and promotional filter, the task extractor, the in-memory  *)
(* task store with markComplete / addNote / listTasks, the three workflow  *)
(* steps and the execution log.                                            *)
(*                                                                         *)
(* Texts are TLA+ strings.  The task identifier `task-${email.id}-${now}`  *)
(* is the string "task-" \o email.id \o "-" \o now.  A missing          *)
(* (undefined) property of a JavaScript object is the value Undefined.     *)
(***************************************************************************)
EXTENDS Integers, Sequences, FiniteSets, TLC

\* ------------------------------------------------------------------ bounds
MaxTime == 1
MaxToolCalls == 2

\* --------------------------------------------------------------- constants
FetchMaxResults == 20
BodyLimit == 2000

Undefined == "<undefined>"

\* ------------------------------------------------------------ text helpers
UpperChars == "ABCDEFGHIJKLMNOPQRSTUVWXYZ"

LowerChars == "abcdefghijklmnopqrstuvwxyz"

Base64Chars == "ABCDEFGHIJKLMNOPQRSTUVWXYZabcdefghijklmnopqrstuvwxyz0123456789+/"

\* the printable ASCII characters, code points 32 .. 126 (the grave accent,
\* code point 96, cannot be written in a string and is shown as "?")
AsciiChars == " !\"#$%&'()*+,-./0123456789:;<=>?@ABCDEFGHIJKLMNOPQRSTUVWXYZ[\\]^_?abcdefghijklmnopqrstuvwxyz{|}~"

CharAt(s, i) == SubSeq(s, i, i)

\* position of the one-character string c in s, 0 when it does not occur
IndexOf(c, s) ==
  IF \E i \in 1..Len(s) : CharAt(s, i) = c
  THEN CHOOSE i \in 1..Len(s) : CharAt(s, i) = c /\ \A j \in 1..(i-1) : CharAt(s, j) # c
  ELSE 0

LowerChar(c) ==
  IF IndexOf(c, UpperChars) # 0 THEN CharAt(LowerChars, IndexOf(c, UpperChars)) ELSE c

RECURSIVE ToLowerCase(_)
ToLowerCase(s) ==
  IF Len(s) = 0 THEN "" ELSE LowerChar(CharAt(s, 1)) \o ToLowerCase(SubSeq(s, 2, Len(s)))

\* String.prototype.includes
Includes(s, k) ==
  \E i \in 1..(Len(s) - Len(k) + 1) : SubSeq(s, i, i + Len(k) - 1) = k

\* String.prototype.substring(0, n)
Substring0(s, n) == SubSeq(s, 1, IF Len(s) < n THEN Len(s) ELSE n)

\* the 6-bit value of a base64 character ('-' and '_' are the url-safe 62, 63)
Base64Value(c) ==
  IF c = "-" THEN 62 ELSE IF c = "_" THEN 63 ELSE IndexOf(c, Base64Chars) - 1

IsBase64Char(c) == c = "-" \/ c = "_" \/ IndexOf(c, Base64Chars) # 0

\* the sextets of the input up to the first padding character, other
\* characters skipped
RECURSIVE Base64Sextets(_)
Base64Sextets(s) ==
  IF Len(s) = 0 \/ CharAt(s, 1) = "=" THEN <<>>
  ELSE IF IsBase64Char(CharAt(s, 1))
       THEN <<Base64Value(CharAt(s, 1))>> \o Base64Sextets(SubSeq(s, 2, Len(s)))
       ELSE Base64Sextets(SubSeq(s, 2, Len(s)))

\* bytes of one group of up to four sextets
GroupBytes(g) ==
  LET v(i) == IF i <= Len(g) THEN g[i] ELSE 0
      word == v(1) * 262144 + v(2) * 4096 + v(3) * 64 + v(4)
      all == <<word \div 65536, (word \div 256) % 256, word % 256>>
  IN SubSeq(all, 1, IF Len(g) = 0 THEN 0 ELSE Len(g) - 1)

RECURSIVE SextetsToBytes(_)
SextetsToBytes(v) ==
  IF Len(v) = 0 THEN <<>>
  ELSE IF Len(v) <= 4 THEN GroupBytes(v)
  ELSE GroupBytes(SubSeq(v, 1, 4)) \o SextetsToBytes(SubSeq(v, 5, Len(v)))

\* utf-8 decoding of bytes; a byte outside printable ASCII gives "?"
ByteToChar(b) == IF b >= 32 /\ b <= 126 THEN CharAt(AsciiChars, b - 31) ELSE "?"

RECURSIVE BytesToString(_)
BytesToString(bs) ==
  IF Len(bs) = 0 THEN "" ELSE ByteToChar(bs[1]) \o BytesToString(Tail(bs))

\* Buffer.from(data, 'base64').toString('utf-8')
Base64Decode(data) == BytesToString(SextetsToBytes(Base64Sextets(data)))

\* ------------------------------------------------------------ body decoder
NullBody == [isNull |-> TRUE, data |-> "", parts |-> <<>>]

DataBody(d) == [isNull |-> FALSE, data |-> d, parts |-> <<>>]

PartsBody(ps) == [isNull |-> FALSE, data |-> "", parts |-> ps]

RECURSIVE decodeEmailBody(_)
RECURSIVE decodeParts(_, _)
decodeEmailBody(body) ==
  IF body.isNull THEN ""
  ELSE IF body.data # "" THEN Base64Decode(body.data)
  ELSE IF body.parts # <<>> THEN decodeParts(body.parts, 1)
  ELSE ""

\* the loop over body.parts from index i on
decodeParts(parts, i) ==
  IF i > Len(parts) THEN ""
  ELSE LET part == parts[i] IN
    IF part.mimeType = "text/plain" \/ part.mimeType = "text/html"
    THEN decodeEmailBody(part.body)
    ELSE IF part.parts # <<>> /\ decodeEmailBody(PartsBody(part.parts)) # ""
         THEN decodeEmailBody(PartsBody(part.parts))
         ELSE decodeParts(parts, i + 1)

\* ------------------------------------------------------ promotional filter
promotionalKeywords ==
  <<"unsubscribe", "newsletter", "promotion", "sale", "discount",
    "offer", "deal", "no-reply", "noreply", "automated">>

\* headers.find(h => pred(h.name))?.value || dflt
RECURSIVE FindHeaderLower(_, _, _)
FindHeaderLower(headers, lname, dflt) ==
  IF Len(headers) = 0 THEN dflt
  ELSE IF ToLowerCase(headers[1].name) = lname
       THEN (IF headers[1].value = "" THEN dflt ELSE headers[1].value)
       ELSE FindHeaderLower(Tail(headers), lname, dflt)

RECURSIVE FindHeaderExact(_, _, _)
FindHeaderExact(headers, name, dflt) ==
  IF Len(headers) = 0 THEN dflt
  ELSE IF headers[1].name = name
       THEN (IF headers[1].value = "" THEN dflt ELSE headers[1].value)
       ELSE FindHeaderExact(Tail(headers), name, dflt)

\* contentToCheck without the toLowerCase call
contentToCheck_CaseSensitive(headers, body) ==
  FindHeaderLower(headers, "from", "") \o FindHeaderLower(headers, "subject", "") \o body

contentToCheck(headers, body) ==
  ToLowerCase(FindHeaderLower(headers, "from", "")
              \o FindHeaderLower(headers, "subject", "") \o body)

isPromotionalEmail(headers, body) ==
  \E k \in 1..Len(promotionalKeywords) :
    Includes(contentToCheck(headers, body), promotionalKeywords[k])

\* ------------------------------------------------------------- the mailbox
\* The messages the Message Source can hold, by identifier:
\*   A  sender "No-Reply@x", promotional by its sender
\*   B  plain message, body "do"
\*   C  lower-case header names, no payload body, one text/plain part "hi"
\*   D  body "Sale", promotional by its body
MsgOrder == <<"A", "B", "C", "D">>

MsgIds == {MsgOrder[i] : i \in 1..Len(MsgOrder)}

Header(n, v) == [name |-> n, value |-> v]

TextPart(mime, d) == [mimeType |-> mime, body |-> DataBody(d), parts |-> <<>>]

Payload(id) ==
  CASE id = "A" ->
         [headers |-> <<Header("From", "No-Reply@x"), Header("Subject", "Hi")>>,
          body |-> DataBody("b2s="), parts |-> <<>>]
    [] id = "B" ->
         [headers |-> <<Header("Subject", "Fix"), Header("From", "bob"),
                        Header("Date", "Mon")>>,
          body |-> DataBody("ZG8="), parts |-> <<>>]
    [] id = "C" ->
         [headers |-> <<Header("from", "amy"), Header("subject", "Q3")>>,
          body |-> NullBody, parts |-> <<TextPart("text/plain", "aGk=")>>]
    [] OTHER ->
         [headers |-> <<Header("From", "dan"), Header("Subject", "Re")>>,
          body |-> DataBody("U2FsZQ=="), parts |-> <<>>]

\* decodeEmailBody(detail.data.payload?.body || detail.data.payload)
PayloadText(p) ==
  decodeEmailBody(IF p.body.isNull THEN PartsBody(p.parts) ELSE p.body)

\* ------------------------------------------------- payloads for the decoder
\* A body that is present and carries no data, as Gmail gives for a part
\* that is a container: { size: 0 }
EmptyBody == DataBody("")

\* detail.data.payload when the message has none
AbsentPayload == [mimeType |-> Undefined, body |-> NullBody, parts |-> <<>>]

\* parts without nested parts: text with data ("hi", "ok"), text whose body
\* is empty or absent, and an attachment with data ("x")
LeafParts ==
  {TextPart("text/plain", "aGk="), TextPart("text/html", "b2s="),
   TextPart("text/plain", ""), TextPart("application/pdf", "eA=="),
   [mimeType |-> "text/plain", body |-> NullBody, parts |-> <<>>]}

\* the sequences of one or two elements of a set
UpToTwo(S) == {<<x>> : x \in S} \cup {<<x, y>> : x \in S, y \in S}

\* container parts holding leaves
ContainerParts ==
  {[mimeType |-> "multipart/alternative", body |-> EmptyBody, parts |-> ps] :
     ps \in UpToTwo(LeafParts)}

\* the payloads given to the decoder: none, a single part, and a container
\* (with its own body empty or absent) of leaves and containers
SamplePayloads ==
  {AbsentPayload} \cup LeafParts \cup
  {[mimeType |-> "multipart/mixed", body |-> b, parts |-> ps] :
     b \in {EmptyBody, NullBody}, ps \in UpToTwo(LeafParts \cup ContainerParts)}

\* the unread messages in listing order, at most maxResults of them
ListUnread(unread, maxResults) ==
  LET all == SelectSeq(MsgOrder, LAMBDA m : m \in unread)
  IN SubSeq(all, 1, IF Len(all) < maxResults THEN Len(all) ELSE maxResults)

EmailOf(id) ==
  LET p == Payload(id) IN
  [id |-> id,
   subject |-> FindHeaderExact(p.headers, "Subject", "No Subject"),
   from |-> FindHeaderExact(p.headers, "From", "Unknown"),
   date |-> FindHeaderExact(p.headers, "Date", ""),
   body |-> Substring0(PayloadText(p), BodyLimit)]

\* per message, what one iteration of the loop of getEmails computes
Promotional ==
  [id \in MsgIds |-> isPromotionalEmail(Payload(id).headers, PayloadText(Payload(id)))]

Emails == [id \in MsgIds |-> EmailOf(id)]

\* the loop of getEmails over the listed messages
RECURSIVE EmailDetails(_)
EmailDetails(ids) ==
  IF Len(ids) = 0 THEN <<>>
  ELSE IF Promotional[ids[1]]
       THEN EmailDetails(Tail(ids))
       ELSE <<Emails[ids[1]]>> \o EmailDetails(Tail(ids))

\* getEmails(maxResults) when the Gmail calls succeed
getEmails(unread, maxResults) == EmailDetails(ListUnread(unread, maxResults))

\* ------------------------------------------------------ the language model
\* Sample response texts of generateText and what JSON.parse makes of them.
SyntaxError == [parsed |-> FALSE, isObject |-> FALSE, noTask |-> FALSE,
                description |-> Undefined, priority |-> Undefined,
                dueDate |-> Undefined, context |-> Undefined]

JsonNull == [SyntaxError EXCEPT !.parsed = TRUE]

JsonObject == [JsonNull EXCEPT !.isObject = TRUE]

ResponseTexts ==
  {"Sure, here is the task", "null", "{\"noTask\":true}", "{}",
   "{\"description\":\"call\"}",
   "{\"description\":\"fix\",\"priority\":\"urgent\"}",
   "{\"description\":\"pay\",\"priority\":\"high\",\"dueDate\":\"2025-01-31\",\"context\":\"inv\"}"}

JSONParse(text) ==
  CASE text = "null" -> JsonNull
    [] text = "{\"noTask\":true}" -> [JsonObject EXCEPT !.noTask = TRUE]
    [] text = "{}" -> JsonObject
    [] text = "{\"description\":\"call\"}" -> [JsonObject EXCEPT !.description = "call"]
    [] text = "{\"description\":\"fix\",\"priority\":\"urgent\"}" ->
         [JsonObject EXCEPT !.description = "fix", !.priority = "urgent"]
    [] text = "{\"description\":\"pay\",\"priority\":\"high\",\"dueDate\":\"2025-01-31\",\"context\":\"inv\"}" ->
         [JsonObject EXCEPT !.description = "pay", !.priority = "high",
                            !.dueDate = "2025-01-31", !.context = "inv"]
    [] OTHER -> SyntaxError

\* what generateText does: it throws, or it returns a text
ModelOutcomes ==
  {[threw |-> TRUE, text |-> ""]} \cup {[threw |-> FALSE, text |-> t] : t \in ResponseTexts}

\* --------------------------------------------------------- the task store
\* taskStore is the Map in insertion order: a sequence of tasks, one per key.
StoreIds(store) == {store[i].id : i \in 1..Len(store)}

StoreHas(store, id) == id \in StoreIds(store)

StoreIndex(store, id) == CHOOSE i \in 1..Len(store) : store[i].id = id

StoreGet(store, id) == store[StoreIndex(store, id)]

\* a set that empties the Map before it stores the entry
StoreSet_Clears(store, id, task) == <<task>>

\* Map.prototype.set: a present key keeps its place
StoreSet(store, id, task) ==
  IF StoreHas(store, id)
  THEN [store EXCEPT ![StoreIndex(store, id)] = task]
  ELSE Append(store, task)

\* `task-${email.id}-${Date.now()}`
TaskIdOf(emailId, time) == "task-" \o emailId \o "-" \o ToString(time)

\* x || dflt without the default
OrElse_NoDefault(x, dflt) == x

\* x || dflt for a string-valued property
OrElse(x, dflt) == IF x = Undefined \/ x = "" THEN dflt ELSE x

\* extractTasksFromEmail without the test of result.noTask
extractTasksFromEmail_IgnoresMarker(email, outcome, time) ==
  LET result == JSONParse(outcome.text)
      task == [id |-> TaskIdOf(email.id, time),
               emailId |-> email.id,
               subject |-> email.subject,
               description |-> result.description,
               sender |-> email.from,
               priority |-> OrElse(result.priority, "medium"),
               dueDate |-> result.dueDate,
               status |-> "pending",
               notes |-> <<OrElse(result.context, "")>>,
               createdAt |-> time]
  IN IF outcome.threw \/ ~result.parsed \/ ~result.isObject
     THEN [created |-> FALSE, task |-> task]
     ELSE [created |-> TRUE, task |-> task]

\* extractTasksFromEmail: the task built from a parsed response, or no task
\* (returned null) with created = FALSE
extractTasksFromEmail(email, outcome, time) ==
  LET result == JSONParse(outcome.text)
      task == [id |-> TaskIdOf(email.id, time),
               emailId |-> email.id,
               subject |-> email.subject,
               description |-> result.description,
               sender |-> email.from,
               priority |-> OrElse(result.priority, "medium"),
               dueDate |-> result.dueDate,
               status |-> "pending",
               notes |-> <<OrElse(result.context, "")>>,
               createdAt |-> time]
  IN IF outcome.threw \/ ~result.parsed \/ ~result.isObject \/ result.noTask
     THEN [created |-> FALSE, task |-> task]
     ELSE [created |-> TRUE, task |-> task]

\* markTaskComplete completing every task once it found the one asked for
markTaskComplete_CompletesAll(store, taskId) ==
  IF StoreHas(store, taskId)
  THEN [store |-> [i \in 1..Len(store) |-> [store[i] EXCEPT !.status = "completed"]],
        ok |-> TRUE]
  ELSE [store |-> store, ok |-> FALSE]

\* markTaskComplete flipping the status instead of setting it
markTaskComplete_Toggles(store, taskId) ==
  IF StoreHas(store, taskId)
  THEN [store |-> StoreSet(store, taskId,
                           [StoreGet(store, taskId) EXCEPT
                              !.status = IF @ = "completed" THEN "pending"
                                         ELSE "completed"]),
        ok |-> TRUE]
  ELSE [store |-> store, ok |-> FALSE]

\* markTaskComplete returning true whether or not it found the task
markTaskComplete_AlwaysTrue(store, taskId) ==
  IF StoreHas(store, taskId)
  THEN [store |-> StoreSet(store, taskId,
                           [StoreGet(store, taskId) EXCEPT !.status = "completed"]),
        ok |-> TRUE]
  ELSE [store |-> store, ok |-> TRUE]

\* markTaskComplete: the store afterwards and the returned boolean
markTaskComplete(store, taskId) ==
  IF StoreHas(store, taskId)
  THEN [store |-> StoreSet(store, taskId,
                           [StoreGet(store, taskId) EXCEPT !.status = "completed"]),
        ok |-> TRUE]
  ELSE [store |-> store, ok |-> FALSE]

\* addTaskNote assigning the notes instead of pushing onto them
addTaskNote_Replaces(store, taskId, note) ==
  IF StoreHas(store, taskId)
  THEN [store |-> StoreSet(store, taskId,
                           [StoreGet(store, taskId) EXCEPT !.notes = <<note>>]),
        ok |-> TRUE]
  ELSE [store |-> store, ok |-> FALSE]

\* addTaskNote: the store afterwards and the returned boolean
addTaskNote(store, taskId, note) ==
  IF StoreHas(store, taskId)
  THEN [store |-> StoreSet(store, taskId,
                           [StoreGet(store, taskId) EXCEPT
                              !.notes = Append(@, note)]),
        ok |-> TRUE]
  ELSE [store |-> store, ok |-> FALSE]

getAllTasks(store) == store

\* ------------------------------------------------------------------ state
Runs == {1, 2}

VARIABLES
  inbox,          \* identifiers of the unread inbox messages at the Message Source
  now,            \* Date.now()
  taskStore,      \* the Map taskStore, in insertion order
  executionLogs,  \* the array executionLogs
  logRun,         \* history: logRun[i] is the run that appended executionLogs[i]
  pc,             \* per run: the workflow step it is at
  ctx,            \* per run: the workflow context (results of the steps so far)
  queue,          \* per run: emails the loop of extractTasks has still to visit
  found,          \* per run: the local array `tasks` of extractTasks
  examined,       \* history, per run: how many messages its fetch step listed
  runError,       \* per run: message of the error the run threw, "" if none
  insertLog,      \* history: one record per taskStore.set of the extractor
  toolResult,     \* what the last markComplete / addNote / listTasks call returned
  toolCalls,      \* number of such calls so far
  handed,         \* history, per run: the emails given to extractTasksFromEmail
                  \* and how each model call ended
  decoded         \* the last payload given to the body decoder, and its text

vars == <<inbox, now, taskStore, executionLogs, logRun, pc, ctx,
          queue, found, examined, runError, insertLog, toolResult, toolCalls,
          handed, decoded>>

\* before the decoder has been given a payload
NotDecoded == [called |-> FALSE, payload |-> AbsentPayload, text |-> ""]

\* The result of a call, with the call's arguments and (history) the status
\* the addressed task had when the call was made, "absent" if it had none.
NoResult == [action |-> "none", taskId |-> Undefined, note |-> Undefined,
             was |-> "absent", success |-> FALSE, message |-> "", tasks |-> <<>>]

EmptyContext == [emails |-> <<>>, emailCount |-> 0, tasks |-> <<>>, taskCount |-> 0]

\* the program before its first run and its first call
InitProgram ==
  /\ inbox = MsgIds
  /\ now = 0
  /\ taskStore = <<>>
  /\ executionLogs = <<>>
  /\ logRun = <<>>
  /\ pc = [r \in Runs |-> "idle"]
  /\ ctx = [r \in Runs |-> EmptyContext]
  /\ queue = [r \in Runs |-> <<>>]
  /\ found = [r \in Runs |-> <<>>]
  /\ examined = [r \in Runs |-> 0]
  /\ runError = [r \in Runs |-> ""]
  /\ insertLog = {}
  /\ toolResult = NoResult
  /\ toolCalls = 0
  /\ handed = [r \in Runs |-> <<>>]

Init ==
  /\ InitProgram
  /\ decoded = NotDecoded

\* a message has arrived whose payload is one of the samples
InitDecoder ==
  /\ InitProgram
  /\ decoded \in {[NotDecoded EXCEPT !.payload = p] : p \in SamplePayloads}

\* ------------------------------------------------------------ environment
\* the clock advances
Tick ==
  /\ now < MaxTime
  /\ now' = now + 1
  /\ UNCHANGED <<inbox, taskStore, executionLogs, logRun, pc, ctx,
                 queue, found, examined, runError, insertLog, toolResult, toolCalls, handed, decoded>>

\* a message arrives unread, or an unread message is read elsewhere
InboxChange ==
  /\ \E m \in MsgIds :
       inbox' = IF m \in inbox THEN inbox \ {m} ELSE inbox \cup {m}
  /\ UNCHANGED <<now, taskStore, executionLogs, logRun, pc, ctx, queue, found, examined,
                 runError, insertLog, toolResult, toolCalls, handed, decoded>>

\* ------------------------------------------------------------ the workflow
\* logExecution
logExecution(logs, log) == Append(logs, log)

\* x || 0 for a count
OrZero(x) == IF x = 0 THEN 0 ELSE x

\* a step throws: the workflow stops and triggerTaskRefresh rethrows
Throw(r, message) ==
  /\ pc' = [pc EXCEPT ![r] = "failed"]
  /\ runError' = [runError EXCEPT ![r] = message]

\* Step 1, fetchEmailsStep, entered when the workflow is triggered.  The Gmail
\* calls of one getEmails read the mailbox and touch neither the task store
\* nor the execution log, so a fetch is one step; any of its calls may throw.
FetchEmailsStep(r) ==
  /\ pc[r] = "idle"
  /\ \E sourceFails \in BOOLEAN :
       IF sourceFails
       THEN /\ Throw(r, "Failed to fetch emails from Gmail")
            /\ UNCHANGED <<ctx, examined>>
       ELSE LET emails == getEmails(inbox, FetchMaxResults) IN
            /\ ctx' = [ctx EXCEPT ![r].emails = emails, ![r].emailCount = Len(emails)]
            /\ examined' = [examined EXCEPT ![r] = Len(ListUnread(inbox, FetchMaxResults))]
            /\ pc' = [pc EXCEPT ![r] = "extract-tasks"]
            /\ UNCHANGED runError
  /\ UNCHANGED <<inbox, now, taskStore, executionLogs, logRun,
                 queue, found, insertLog, toolResult, toolCalls, handed, decoded>>

\* extractTasksStep returning the number of emails as its taskCount
ExtractTasksReturn_CountsEmails(r, tasks) ==
  /\ ctx' = [ctx EXCEPT ![r].tasks = tasks, ![r].taskCount = Len(ctx[r].emails)]
  /\ pc' = [pc EXCEPT ![r] = "update-task-list"]

\* the loop of extractTasks is over: the tool returns its local array and
\* extractTasksStep returns it with its length
ExtractTasksReturn(r, tasks) ==
  /\ ctx' = [ctx EXCEPT ![r].tasks = tasks, ![r].taskCount = Len(tasks)]
  /\ pc' = [pc EXCEPT ![r] = "update-task-list"]

\* extractTasksStep returning without awaiting the loop over the emails
ExtractTasksStep_ReturnsBeforeLoop(r) ==
  /\ pc[r] = "extract-tasks"
  /\ \E sourceFails \in BOOLEAN :
       IF sourceFails
       THEN /\ Throw(r, "Failed to fetch emails from Gmail")
            /\ UNCHANGED <<queue, found, ctx>>
       ELSE LET emails == getEmails(inbox, FetchMaxResults) IN
            /\ queue' = [queue EXCEPT ![r] = emails]
            /\ found' = [found EXCEPT ![r] = <<>>]
            /\ ExtractTasksReturn(r, <<>>)
            /\ UNCHANGED runError
  /\ UNCHANGED <<inbox, now, taskStore, executionLogs, logRun,
                 examined, insertLog, toolResult, toolCalls, handed, decoded>>

\* Step 2, extractTasksStep, up to the first model call: the extractTasks
\* action of the tool fetches the unread emails itself
ExtractTasksStep(r) ==
  /\ pc[r] = "extract-tasks"
  /\ \E sourceFails \in BOOLEAN :
       IF sourceFails
       THEN /\ Throw(r, "Failed to fetch emails from Gmail")
            /\ UNCHANGED <<queue, found, ctx>>
       ELSE LET emails == getEmails(inbox, FetchMaxResults) IN
            /\ queue' = [queue EXCEPT ![r] = emails]
            /\ found' = [found EXCEPT ![r] = <<>>]
            /\ IF emails = <<>>
               THEN ExtractTasksReturn(r, <<>>)
               ELSE /\ pc' = [pc EXCEPT ![r] = "extracting"]
                    /\ UNCHANGED ctx
            /\ UNCHANGED runError
  /\ UNCHANGED <<inbox, now, taskStore, executionLogs, logRun,
                 examined, insertLog, toolResult, toolCalls, handed, decoded>>

\* how a model call ends for extractTasksFromEmail: "error" when the catch
\* block is entered (generateText threw, JSON.parse threw, or the parsed value
\* is null and has no property to read), "noTask" when the response carries
\* the noTask marker, "task" otherwise
OutcomeKind(outcome) ==
  IF outcome.threw \/ ~JSONParse(outcome.text).parsed \/ ~JSONParse(outcome.text).isObject
  THEN "error"
  ELSE IF JSONParse(outcome.text).noTask THEN "noTask" ELSE "task"

\* the loop iteration without the catch block of extractTasksFromEmail: an
\* error of the model call or of JSON.parse leaves the step
ExtractFromEmailWith_Rethrows(r, outcome) ==
  /\ pc[r] = "extracting"
  /\ queue[r] # <<>>
  /\ LET email == Head(queue[r])
         res == extractTasksFromEmail(email, outcome, now)
         tasks == IF res.created THEN Append(found[r], res.task) ELSE found[r]
     IN /\ IF res.created
           THEN /\ taskStore' = StoreSet(taskStore, res.task.id, res.task)
                /\ insertLog' = insertLog \cup
                     {[run |-> r, emailId |-> email.id, taskId |-> res.task.id]}
           ELSE UNCHANGED <<taskStore, insertLog>>
        /\ found' = [found EXCEPT ![r] = tasks]
        /\ handed' = [handed EXCEPT
                        ![r] = Append(@, [emailId |-> email.id,
                                          kind |-> OutcomeKind(outcome)])]
        /\ IF OutcomeKind(outcome) = "error"
           THEN /\ Throw(r, "Error extracting task from email")
                /\ UNCHANGED ctx
           ELSE /\ UNCHANGED runError
                /\ IF Len(queue[r]) = 1
                   THEN ExtractTasksReturn(r, tasks)
                   ELSE UNCHANGED <<pc, ctx>>
  /\ queue' = [queue EXCEPT ![r] = Tail(@)]
  /\ UNCHANGED <<inbox, now, executionLogs, logRun,
                 examined, toolResult, toolCalls, decoded>>

\* one iteration of the loop of extractTasks: the model call ends with the
\* given outcome and extractTasksFromEmail finishes without a further await;
\* after the last email the step returns
ExtractFromEmailWith(r, outcome) ==
  /\ pc[r] = "extracting"
  /\ queue[r] # <<>>
  /\ LET email == Head(queue[r])
         res == extractTasksFromEmail(email, outcome, now)
         tasks == IF res.created THEN Append(found[r], res.task) ELSE found[r]
     IN /\ IF res.created
           THEN /\ taskStore' = StoreSet(taskStore, res.task.id, res.task)
                /\ insertLog' = insertLog \cup
                     {[run |-> r, emailId |-> email.id, taskId |-> res.task.id]}
           ELSE UNCHANGED <<taskStore, insertLog>>
        /\ found' = [found EXCEPT ![r] = tasks]
        /\ handed' = [handed EXCEPT
                        ![r] = Append(@, [emailId |-> email.id,
                                          kind |-> OutcomeKind(outcome)])]
        /\ IF Len(queue[r]) = 1
           THEN ExtractTasksReturn(r, tasks)
           ELSE UNCHANGED <<pc, ctx>>
  /\ queue' = [queue EXCEPT ![r] = Tail(@)]
  /\ UNCHANGED <<inbox, now, executionLogs, logRun,
                 examined, runError, toolResult, toolCalls, decoded>>

\* one iteration of the loop, whatever the model answers
ExtractFromEmail(r) == \E outcome \in ModelOutcomes : ExtractFromEmailWith(r, outcome)

\* the listTasks action of the tool
listTasks(store) ==
  [success |-> TRUE, tasks |-> getAllTasks(store)]

\* what awaiting a call yields: it returns a result, or it throws
Returned(result) == [threw |-> FALSE, result |-> result,
                     error |-> [isError |-> FALSE, message |-> ""]]

Threw(error) == [threw |-> TRUE, result |-> [success |-> FALSE, tasks |-> <<>>],
                 error |-> error]

\* updateTaskListStep with a catch block that rethrows without logging
UpdateTaskListWith_NoErrorLog(r, call) ==
  /\ pc[r] = "update-task-list"
  /\ IF ~call.threw /\ call.result.success
     THEN /\ executionLogs' = logExecution(executionLogs,
               [timestamp |-> now,
                emailsChecked |-> OrZero(ctx[r].emailCount),
                tasksExtracted |-> OrZero(ctx[r].taskCount),
                status |-> "success",
                error |-> Undefined])
          /\ pc' = [pc EXCEPT ![r] = "succeeded"]
          /\ UNCHANGED runError
     ELSE LET thrown == IF call.threw THEN call.error
                        ELSE [isError |-> TRUE,
                              message |-> "Failed to verify task list update"]
          IN /\ UNCHANGED executionLogs
             /\ Throw(r, thrown.message)
  /\ logRun' = IF ~call.threw /\ call.result.success THEN Append(logRun, r) ELSE logRun
  /\ UNCHANGED <<inbox, now, taskStore, ctx, queue, found, examined,
                 insertLog, toolResult, toolCalls, handed, decoded>>

\* Step 3, updateTaskListStep, given what its call of the tool yields
UpdateTaskListWith(r, call) ==
  /\ pc[r] = "update-task-list"
  /\ IF ~call.threw /\ call.result.success
     THEN /\ executionLogs' = logExecution(executionLogs,
               [timestamp |-> now,
                emailsChecked |-> OrZero(ctx[r].emailCount),
                tasksExtracted |-> OrZero(ctx[r].taskCount),
                status |-> "success",
                error |-> Undefined])
          /\ pc' = [pc EXCEPT ![r] = "succeeded"]
          /\ UNCHANGED runError
     ELSE LET thrown == IF call.threw THEN call.error
                        ELSE [isError |-> TRUE,
                              message |-> "Failed to verify task list update"]
          IN /\ executionLogs' = logExecution(executionLogs,
                  [timestamp |-> now,
                   emailsChecked |-> OrZero(ctx[r].emailCount),
                   tasksExtracted |-> 0,
                   status |-> "error",
                   error |-> IF thrown.isError THEN thrown.message
                             ELSE "Unknown error"])
             /\ Throw(r, thrown.message)
  /\ logRun' = Append(logRun, r)
  /\ UNCHANGED <<inbox, now, taskStore, ctx, queue, found, examined,
                 insertLog, toolResult, toolCalls, handed, decoded>>

\* Step 3 with the tool of this repository, whose listTasks action returns
UpdateTaskListStep(r) == UpdateTaskListWith(r, Returned(listTasks(taskStore)))

\* ways the call of the tool can fail when the store behind it is one that
\* can: it reports failure, or throws an Error, or throws another value
FailingListCalls ==
  {Returned([success |-> FALSE, tasks |-> <<>>]),
   Threw([isError |-> TRUE, message |-> "store unavailable"]),
   Threw([isError |-> FALSE, message |-> "store unavailable"])}

\* Step 3 when the call of the tool fails
UpdateTaskListFails(r) == \E call \in FailingListCalls : UpdateTaskListWith(r, call)

\* ------------------------------------------- the task management surface
\* the identifiers a caller may pass: those in the store, one that is not,
\* and none at all
CallerTaskIds == StoreIds(taskStore) \cup {Undefined, "task-none"}

CallerNotes == {"", "n1", "n2"}

Missing(x) == x = Undefined \/ x = ""

StatusOf(store, taskId) ==
  IF StoreHas(store, taskId) THEN StoreGet(store, taskId).status ELSE "absent"

\* emailTool.execute with action markComplete
MarkComplete(taskId) ==
  /\ toolCalls < MaxToolCalls
  /\ toolCalls' = toolCalls + 1
  /\ IF Missing(taskId)
     THEN /\ toolResult' = [NoResult EXCEPT !.action = "markComplete",
                              !.taskId = taskId, !.success = FALSE,
                              !.message = "Task ID is required"]
          /\ UNCHANGED taskStore
     ELSE LET res == markTaskComplete(taskStore, taskId) IN
          /\ taskStore' = res.store
          /\ toolResult' = [NoResult EXCEPT !.action = "markComplete",
                              !.taskId = taskId, !.success = res.ok,
                              !.was = StatusOf(taskStore, taskId),
                              !.message = IF res.ok THEN "Task marked as complete"
                                          ELSE "Task not found"]
  /\ UNCHANGED <<inbox, now, executionLogs, logRun, pc, ctx, queue,
                 found, examined, runError, insertLog, handed, decoded>>

\* emailTool.execute with action addNote
AddNote(taskId, note) ==
  /\ toolCalls < MaxToolCalls
  /\ toolCalls' = toolCalls + 1
  /\ IF Missing(taskId) \/ Missing(note)
     THEN /\ toolResult' = [NoResult EXCEPT !.action = "addNote",
                              !.taskId = taskId, !.note = note, !.success = FALSE,
                              !.was = StatusOf(taskStore, taskId),
                              !.message = "Task ID and note are required"]
          /\ UNCHANGED taskStore
     ELSE LET res == addTaskNote(taskStore, taskId, note) IN
          /\ taskStore' = res.store
          /\ toolResult' = [NoResult EXCEPT !.action = "addNote",
                              !.taskId = taskId, !.note = note, !.success = res.ok,
                              !.was = StatusOf(taskStore, taskId),
                              !.message = IF res.ok THEN "Note added to task"
                                          ELSE "Task not found"]
  /\ UNCHANGED <<inbox, now, executionLogs, logRun, pc, ctx, queue,
                 found, examined, runError, insertLog, handed, decoded>>

\* emailTool.execute with action listTasks
ListTasks ==
  /\ toolCalls < MaxToolCalls
  /\ toolCalls' = toolCalls + 1
  /\ toolResult' = [NoResult EXCEPT !.action = "listTasks", !.success = TRUE,
                      !.tasks = listTasks(taskStore).tasks,
                      !.message = "Found tasks"]
  /\ UNCHANGED <<inbox, now, taskStore, executionLogs, logRun, pc,
                 ctx, queue, found, examined, runError, insertLog, handed, decoded>>

\* ------------------------------------------------------ the decoder alone
\* getEmails decodes the payload of one message
Decode ==
  /\ ~decoded.called
  /\ decoded' = [decoded EXCEPT !.called = TRUE, !.text = PayloadText(decoded.payload)]
  /\ UNCHANGED <<inbox, now, taskStore, executionLogs, logRun, pc, ctx, queue, found,
                 examined, runError, insertLog, toolResult, toolCalls, handed>>

\* every step of the environment, of the runs and of the callers
Next ==
  \/ Tick
  \/ InboxChange
  \/ \E r \in Runs : FetchEmailsStep(r)
  \/ \E r \in Runs : ExtractTasksStep(r)
  \/ \E r \in Runs : ExtractFromEmail(r)
  \/ \E r \in Runs : UpdateTaskListStep(r)
  \/ \E t \in CallerTaskIds : MarkComplete(t)
  \/ \E t \in CallerTaskIds, n \in CallerNotes : AddNote(t, n)
  \/ ListTasks

Spec == Init /\ [][Next]_vars

\* One run over an inbox that changes while the clock advances; nobody calls
\* the task management surface.
NextRun ==
  \/ Tick
  \/ InboxChange
  \/ FetchEmailsStep(1)
  \/ ExtractTasksStep(1)
  \/ ExtractFromEmail(1)
  \/ UpdateTaskListStep(1)

SpecRun == Init /\ [][NextRun]_vars

\* The same, where the awaited calls of the run return or throw in the end:
\* a step of the run that stays possible is taken.
SpecRunFair ==
  /\ SpecRun
  /\ WF_vars(FetchEmailsStep(1))
  /\ WF_vars(ExtractTasksStep(1))
  /\ WF_vars(ExtractFromEmail(1))
  /\ WF_vars(UpdateTaskListStep(1))

\* Two runs that may overlap, over an unchanged inbox, while the clock
\* advances; nobody calls the task management surface.
NextRuns ==
  \/ Tick
  \/ \E r \in Runs : FetchEmailsStep(r)
  \/ \E r \in Runs : ExtractTasksStep(r)
  \/ \E r \in Runs : ExtractFromEmail(r)
  \/ \E r \in Runs : UpdateTaskListStep(r)

SpecRuns == Init /\ [][NextRuns]_vars

\* the model finds no task, or returns a full task
PlainOutcomes ==
  {o \in ModelOutcomes :
     /\ ~o.threw
     /\ \/ JSONParse(o.text).noTask
        \/ JSONParse(o.text).description = "pay"}

\* One run, and callers of the task management surface; the model answers
\* plainly.
NextDashboard ==
  \/ Tick
  \/ FetchEmailsStep(1)
  \/ ExtractTasksStep(1)
  \/ \E o \in PlainOutcomes : ExtractFromEmailWith(1, o)
  \/ UpdateTaskListStep(1)
  \/ \E t \in CallerTaskIds : MarkComplete(t)
  \/ \E t \in CallerTaskIds, n \in CallerNotes : AddNote(t, n)
  \/ ListTasks

SpecDashboard == Init /\ [][NextDashboard]_vars

\* One run whose last step may find the enumeration of the store failing.
NextPersist ==
  \/ Tick
  \/ FetchEmailsStep(1)
  \/ ExtractTasksStep(1)
  \/ ExtractFromEmail(1)
  \/ UpdateTaskListStep(1)
  \/ UpdateTaskListFails(1)

SpecPersist == Init /\ [][NextPersist]_vars

\* Two runs that may overlap and callers of the task management surface,
\* all within one reading of the clock; the model answers plainly.
NextOverlap ==
  \/ \E r \in Runs : FetchEmailsStep(r)
  \/ \E r \in Runs : ExtractTasksStep(r)
  \/ \E r \in Runs, o \in PlainOutcomes : ExtractFromEmailWith(r, o)
  \/ \E r \in Runs : UpdateTaskListStep(r)
  \/ \E t \in CallerTaskIds : MarkComplete(t)
  \/ \E t \in CallerTaskIds, n \in CallerNotes : AddNote(t, n)
  \/ ListTasks

SpecOverlap == Init /\ [][NextOverlap]_vars

\* The body decoder as getEmails calls it, over the sample payloads.
NextDecoder == Decode

SpecDecoder == InitDecoder /\ [][NextDecoder]_vars

\* ================================================================= claims
\* the history entries of run r whose model call ended in the given way
HandedAs(r, kind) == {k \in 1..Len(handed[r]) : handed[r][k].kind = kind}

\* the execution log entries a run appended
EntriesOf(r) == {i \in 1..Len(executionLogs) : logRun[i] = r}

\* the insertions into the task store a run made
InsertionsOf(r) == {e \in insertLog : e.run = r}

IsPrefix(a, b) == Len(a) <= Len(b) /\ SubSeq(b, 1, Len(a)) = a

\* C1: the log entry of a run that completed without a stage failure has
\* emailsChecked equal to the number of unread messages its fetch stage
\* examined, the promotional ones included.
C1_EmailsCheckedCountsEveryMessage ==
  \A i \in 1..Len(executionLogs) :
    executionLogs[i].status = "success" =>
      executionLogs[i].emailsChecked = examined[logRun[i]]

\* C2: a run in which the Message Source call threw is recorded by an
\* execution log entry with status error and a non-empty error detail, and
\* it inserted no task.
C2_SourceFailureIsRecorded ==
  \A r \in Runs :
    (pc[r] = "failed" /\ runError[r] = "Failed to fetch emails from Gmail") =>
      /\ \E i \in EntriesOf(r) :
           /\ executionLogs[i].status = "error"
           /\ executionLogs[i].error \notin {Undefined, ""}
           /\ executionLogs[i].tasksExtracted = 0
      /\ InsertionsOf(r) = {}

\* C3: every identifier the extractor assigns is fresh, so the task store
\* holds one distinct task per successful extraction and none has been lost.
C3_OneTaskPerExtraction == Len(taskStore) = Cardinality(insertLog)

C5_CompletedStaysCompleted ==
  [][\A i \in 1..Len(taskStore) :
       taskStore[i].status = "completed" =>
         StatusOf(taskStore', taskStore[i].id) = "completed"]_vars

\* C6: the notes of every task identifier only grow: its notes in a state are
\* a prefix of its notes in the next state.
C6_NotesOnlyGrow ==
  [][\A i \in 1..Len(taskStore) :
       /\ StoreHas(taskStore', taskStore[i].id)
       /\ IsPrefix(taskStore[i].notes, StoreGet(taskStore', taskStore[i].id).notes)]_vars

\* C7: markComplete on a task that is already completed returns success and
\* leaves the store as it is; and after any markComplete that found its task
\* the status is completed and a second markComplete of the same identifier
\* would return success and change nothing.
C7_MarkCompleteIdempotent ==
  [][\A t \in CallerTaskIds :
       (MarkComplete(t) /\ StoreHas(taskStore, t)) =>
         /\ toolResult'.success
         /\ StatusOf(taskStore', t) = "completed"
         /\ StatusOf(taskStore, t) = "completed" => taskStore' = taskStore
         /\ markTaskComplete(taskStore', t).ok
         /\ markTaskComplete(taskStore', t).store = taskStore']_vars

\* markComplete has just succeeded on a task that was completed already
C7_Witness ==
  /\ toolResult.action = "markComplete"
  /\ toolResult.was = "completed"
  /\ toolResult.success
  /\ StatusOf(taskStore, toolResult.taskId) = "completed"

\* C8: markComplete and addNote with an identifier that is not in the task
\* store return success = false and leave the whole task store unchanged.
C8_UnknownIdChangesNothing ==
  [][\A t \in CallerTaskIds, n \in CallerNotes :
       ((MarkComplete(t) \/ AddNote(t, n)) /\ ~StoreHas(taskStore, t)) =>
         /\ ~toolResult'.success
         /\ taskStore' = taskStore]_vars

\* a call for an identifier that names no task has just been refused, with
\* tasks in the store
C8_Witness ==
  /\ toolResult.action \in {"markComplete", "addNote"}
  /\ toolResult.taskId = "task-none"
  /\ toolResult.was = "absent"
  /\ ~toolResult.success
  /\ Len(taskStore) > 0

\* C9 as stated: addNote with the identifier of an existing task and any note
\* text, empty or not, appends that text as the last note and returns success.
C9_AddNoteAnyText ==
  [][\A t \in CallerTaskIds, n \in CallerNotes :
       (AddNote(t, n) /\ StoreHas(taskStore, t)) =>
         /\ toolResult'.success
         /\ StoreHas(taskStore', t)
         /\ StoreGet(taskStore', t).notes = Append(StoreGet(taskStore, t).notes, n)]_vars

\* C9 as amended: addNote with the identifier of an existing task and a
\* non-empty note text appends that text as the last note and returns
\* success; with an absent identifier or an empty note text it returns
\* success = false and changes nothing.
C9_AddNoteNonEmptyText ==
  [][\A t \in CallerTaskIds, n \in CallerNotes :
       AddNote(t, n) =>
         IF StoreHas(taskStore, t) /\ n # ""
         THEN /\ toolResult'.success
              /\ StoreHas(taskStore', t)
              /\ StoreGet(taskStore', t).notes = Append(StoreGet(taskStore, t).notes, n)
         ELSE /\ ~toolResult'.success
              /\ taskStore' = taskStore]_vars

\* addNote has just appended its text to an existing task
C9_Witness ==
  /\ toolResult.action = "addNote"
  /\ toolResult.was # "absent"
  /\ toolResult.success
  /\ toolResult.note = "n2"
  /\ StoreHas(taskStore, toolResult.taskId)
  /\ LET notes == StoreGet(taskStore, toolResult.taskId).notes
     IN Len(notes) >= 2 /\ notes[Len(notes)] = "n2"

\* the fixed keywords of the Eligibility Filter
FilterKeywords ==
  {"unsubscribe", "newsletter", "promotion", "sale", "discount", "offer",
   "deal", "no-reply", "noreply", "automated"}

\* the values of the headers of message id with the given lower-cased name
HeaderValues(id, lname) ==
  {Payload(id).headers[i].value :
     i \in {j \in 1..Len(Payload(id).headers) :
              ToLowerCase(Payload(id).headers[j].name) = lname}}

OnlyValue(vs) == IF vs = {} THEN "" ELSE CHOOSE v \in vs : TRUE

\* messages whose sender header contains "no-reply" in any letter case
NoReplySenders ==
  {id \in MsgIds :
     \E v \in HeaderValues(id, "from") : Includes(ToLowerCase(v), "no-reply")}

\* messages whose sender, subject and body together contain a keyword
KeywordMessages ==
  {id \in MsgIds :
     \E k \in FilterKeywords :
       Includes(ToLowerCase(OnlyValue(HeaderValues(id, "from"))
                            \o OnlyValue(HeaderValues(id, "subject"))
                            \o PayloadText(Payload(id))), k)}

\* C10: no message whose sender header contains "no-reply" in any letter
\* case, and no message whose sender, subject and body contain one of the
\* fixed keywords, is handed to the Task Extractor or yields a task.
C10_PromotionalNeverExtracted ==
  /\ \A r \in Runs : \A i \in 1..Len(queue[r]) :
       queue[r][i].id \notin NoReplySenders \cup KeywordMessages
  /\ \A e \in insertLog : e.emailId \notin NoReplySenders \cup KeywordMessages

\* the extract stage has fetched an inbox that holds a no-reply sender and a
\* keyword body, and has messages to hand to the extractor
C10_Witness ==
  /\ pc[1] = "extracting"
  /\ Len(queue[1]) = 2
  /\ {"A", "D"} \subseteq inbox
  /\ "A" \in NoReplySenders
  /\ "D" \in KeywordMessages

\* the messages for which a run's model call or the parsing of its response failed
FailedFor(r) == {handed[r][k].emailId : k \in HandedAs(r, "error")}

\* C11: an extraction that fails for one eligible message (the model call
\* throws, or its response cannot be parsed) inserts nothing for that
\* message and leaves the run in its loop: the rest of the batch is still
\* handed to the extractor, and the run reaches Succeeded with one success
\* entry in the execution log.
C11_ExtractionFailureIsLocal ==
  /\ [][\A r \in Runs : \A o \in ModelOutcomes :
         (OutcomeKind(o) = "error" /\ ExtractFromEmailWith(r, o)) =>
           /\ taskStore' = taskStore
           /\ insertLog' = insertLog
           /\ queue'[r] = Tail(queue[r])
           /\ pc'[r] = IF queue'[r] = <<>> THEN "update-task-list" ELSE "extracting"]_vars
  /\ [](\A r \in Runs : FailedFor(r) # {} =>
          /\ \A e \in InsertionsOf(r) : e.emailId \notin FailedFor(r)
          /\ pc[r] \in {"extracting", "update-task-list", "succeeded"}
          /\ pc[r] = "extracting" => queue[r] # <<>>
          /\ pc[r] # "extracting" => queue[r] = <<>>
          /\ pc[r] = "succeeded" =>
                /\ Cardinality(EntriesOf(r)) = 1
                /\ \A i \in EntriesOf(r) : executionLogs[i].status = "success")
  /\ \A r \in Runs : (FailedFor(r) # {}) ~> (pc[r] = "succeeded")

\* a run has succeeded although the extraction failed for its first message,
\* and its second message, handed to the extractor afterwards, gave a task
C11_Witness ==
  /\ pc[1] = "succeeded"
  /\ Len(handed[1]) = 2
  /\ handed[1][1].kind = "error"
  /\ handed[1][2].kind = "task"
  /\ Cardinality(InsertionsOf(1)) = 1
  /\ \E i \in EntriesOf(1) :
       executionLogs[i].status = "success" /\ executionLogs[i].tasksExtracted = 1

\* a response that parses to an object with neither the noTask marker nor a
\* description
Malformed(outcome) ==
  /\ ~outcome.threw
  /\ JSONParse(outcome.text).parsed
  /\ JSONParse(outcome.text).isObject
  /\ ~JSONParse(outcome.text).noTask
  /\ JSONParse(outcome.text).description = Undefined

\* C12: a response that parses but is structurally malformed is treated as
\* "no task extracted": the iteration returns nothing to the loop's result
\* and inserts no task.
C12_MalformedResponseYieldsNoTask ==
  [][\A r \in Runs : \A o \in ModelOutcomes :
       (Malformed(o) /\ ExtractFromEmailWith(r, o)) =>
         /\ taskStore' = taskStore
         /\ found'[r] = found[r]]_vars

\* C13: a message for which the extractor reports no task (the response
\* carries the noTask marker, or the extraction failed) yields no insertion
\* into the task store by the run that processed it, and the run's task
\* count and the tasksExtracted of its log entry count only the other
\* messages.
C13_NoTaskMeansNoInsertion ==
  \A r \in Runs :
    /\ \A k \in 1..Len(handed[r]) :
         handed[r][k].kind # "task" =>
           \A e \in InsertionsOf(r) : e.emailId # handed[r][k].emailId
    /\ Len(found[r]) = Cardinality(HandedAs(r, "task"))
    /\ pc[r] \in {"update-task-list", "succeeded"} =>
         ctx[r].taskCount = Len(handed[r]) - Cardinality(HandedAs(r, "noTask"))
                                           - Cardinality(HandedAs(r, "error"))
    /\ \A i \in EntriesOf(r) :
         executionLogs[i].tasksExtracted = Cardinality(HandedAs(r, "task"))

\* a run has logged one extracted task after the model reported no task for
\* the first of its two messages
C13_Witness ==
  /\ pc[1] = "succeeded"
  /\ Len(handed[1]) = 2
  /\ handed[1][1].kind = "noTask"
  /\ handed[1][2].kind = "task"
  /\ \A e \in InsertionsOf(1) : e.emailId = handed[1][2].emailId
  /\ \E i \in EntriesOf(1) : executionLogs[i].tasksExtracted = 1

\* run r failed, and not in one of its two fetches: it failed in its last step
FailedPersisting(r) ==
  pc[r] = "failed" /\ runError[r] # "Failed to fetch emails from Gmail"

StageOrder ==
  {<<"idle", "extract-tasks">>, <<"extract-tasks", "extracting">>,
   <<"extract-tasks", "update-task-list">>, <<"extracting", "update-task-list">>,
   <<"update-task-list", "succeeded">>,
   <<"idle", "failed">>, <<"extract-tasks", "failed">>, <<"update-task-list", "failed">>}

OwnText(part) ==
  IF part.mimeType \in {"text/plain", "text/html"} /\ ~part.body.isNull
  THEN Base64Decode(part.body.data)
  ELSE ""

\* the first such text in a depth-first traversal: a part's own body before
\* its nested parts, earlier parts before later ones
RECURSIVE FirstText(_)
RECURSIVE FirstTextIn(_, _)
FirstText(part) ==
  IF OwnText(part) # "" THEN OwnText(part) ELSE FirstTextIn(part.parts, 1)

FirstTextIn(parts, i) ==
  IF i > Len(parts) THEN ""
  ELSE IF FirstText(parts[i]) # "" THEN FirstText(parts[i])
       ELSE FirstTextIn(parts, i + 1)

\* C16: for every payload the decoder, as the fetch stage calls it, returns
\* the text of the first decodable text/plain or text/html part of the
\* depth-first traversal, and the empty string only when the payload has no
\* such part.
C16_DecoderReturnsFirstText ==
  decoded.called => decoded.text = FirstText(decoded.payload)

\* the priorities of the Task interface
Priorities == {"high", "medium", "low"}

\* C17: every task in the task store has a priority among high, medium and
\* low, whatever the response of the language model contained.
C17_PriorityInRange ==
  \A i \in 1..Len(taskStore) : taskStore[i].priority \in Priorities

\* what a response says of a property: its value, or the given text when the
\* response does not have the property
Said(value, whenAbsent) == IF value = Undefined THEN whenAbsent ELSE value

\* C18: every task the extractor creates is inserted with status pending,
\* with notes of exactly one element, the context of the response or the
\* empty string when the response has none, with the identifier of the
\* message it was extracted from, and with the priority of the response or
\* medium when the response has none.
C18_CreatedTaskFields ==
  [][\A r \in Runs : \A o \in ModelOutcomes :
       (OutcomeKind(o) = "task" /\ ExtractFromEmailWith(r, o)) =>
         /\ Len(found'[r]) = Len(found[r]) + 1
         /\ LET task == found'[r][Len(found'[r])] IN
              /\ StoreHas(taskStore', task.id)
              /\ StoreGet(taskStore', task.id) = task
              /\ task.status = "pending"
              /\ task.notes = <<Said(JSONParse(o.text).context, "")>>
              /\ task.emailId = Head(queue[r]).id
              /\ task.priority = Said(JSONParse(o.text).priority, "medium")]_vars

\* the store holds a task made from a response without priority and context
\* and a task made from a response with both
C18_Witness ==
  \E i, j \in 1..Len(taskStore) :
    /\ taskStore[i].priority = "medium" /\ taskStore[i].notes = <<"">>
    /\ taskStore[i].description = "call" /\ taskStore[i].status = "pending"
    /\ taskStore[j].priority = "high" /\ taskStore[j].notes = <<"inv">>
    /\ taskStore[j].emailId # taskStore[i].emailId

\* the stores differ at most in the given field of the task with the given
\* identifier: same identifiers in the same places, every other task and
\* every other field equal
SameBut(before, after, taskId, field) ==
  /\ Len(after) = Len(before)
  /\ \A i \in 1..Len(before) :
       IF before[i].id = taskId
       THEN CASE field = "status" -> after[i] = [before[i] EXCEPT !.status = after[i].status]
              [] field = "notes" -> after[i] = [before[i] EXCEPT !.notes = after[i].notes]
       ELSE after[i] = before[i]

\* C19: markComplete changes nothing but the status of the task it names,
\* and addNote nothing but the notes of the task it names: the other fields
\* of that task, the other tasks and the execution log stay as they are.
C19_OnlyTheNamedField ==
  [][\A t \in CallerTaskIds, n \in CallerNotes :
       /\ MarkComplete(t) =>
            /\ SameBut(taskStore, taskStore', t, "status")
            /\ executionLogs' = executionLogs
       /\ AddNote(t, n) =>
            /\ SameBut(taskStore, taskStore', t, "notes")
            /\ executionLogs' = executionLogs]_vars

\* markComplete has just completed one of two tasks, the other is pending,
\* and the execution log has an entry
C19_Witness ==
  /\ toolResult.action = "markComplete"
  /\ toolResult.success
  /\ toolResult.was = "pending"
  /\ Len(taskStore) = 2
  /\ \E i \in 1..Len(taskStore) :
       taskStore[i].id # toolResult.taskId /\ taskStore[i].status = "pending"
  /\ Len(executionLogs) = 1

\* C20: no operation removes a task: from one state to the next the set of
\* task identifiers in the store only grows, through runs, markComplete,
\* addNote and listTasks; and listTasks leaves the task store and the
\* execution log as they are.
C20_NoTaskRemoved ==
  [][/\ StoreIds(taskStore) \subseteq StoreIds(taskStore')
     /\ Len(taskStore') >= Len(taskStore)
     /\ ListTasks =>
          /\ taskStore' = taskStore
          /\ executionLogs' = executionLogs
          /\ toolResult'.tasks = taskStore]_vars

\* listTasks has just returned the two tasks of the store, one of them
\* completed
C20_Witness ==
  /\ toolResult.action = "listTasks"
  /\ Len(toolResult.tasks) = 2
  /\ toolResult.tasks = taskStore
  /\ \E i \in 1..Len(taskStore) : taskStore[i].status = "completed"

\* the tasks in the store derived from message m
TasksFrom(m) == {i \in 1..Len(taskStore) : taskStore[i].emailId = m}

\* the messages from which run r made a task
YieldedIn(r) == {e.emailId : e \in InsertionsOf(r)}

\* C21: when the pipeline has run twice over the unchanged inbox and a
\* message has yielded a task both times, the store holds two distinct tasks
\* with that source-message identifier: the second does not replace the
\* first.
C21_RerunLeavesTwoTasks ==
  \A m \in MsgIds :
    (m \in YieldedIn(1) /\ m \in YieldedIn(2)) => Cardinality(TasksFrom(m)) = 2

\* the identifiers of the emails of a sequence
IdsOf(emails) == [k \in 1..Len(emails) |-> emails[k].id]

\* C22: the messages a run hands to the extractor are the messages its
\* fetch stage counted, so every execution log entry has tasksExtracted <=
\* emailsChecked, also when the inbox changes between the stages of the run.
C22_ExtractedWithinChecked ==
  /\ \A r \in Runs :
       pc[r] \in {"update-task-list", "succeeded"} =>
         [k \in 1..Len(handed[r]) |-> handed[r][k].emailId] = IdsOf(ctx[r].emails)
  /\ \A i \in 1..Len(executionLogs) :
       executionLogs[i].tasksExtracted <= executionLogs[i].emailsChecked

====
